---- MODULE Spec2Model ----
(***************************************************************************)
(* Model of Kyanite::AudioBufferGroup (OgreGameLib/AudioBufferGroup.cpp):  *)
(* a registry mapping relative file paths to OpenAL buffer handles, with   *)
(* its collaborators (parent AudioManager, filesystem, OpenAL/ALURE        *)
(* backend, log sink) reduced to the state the group observes.             *)
(***************************************************************************)
EXTENDS Integers, Sequences, FiniteSets, TLC

\* ---------------------------------------------------------------- bounds
NumPaths == 2      \* distinct relative file paths offered to the group
MaxHandle == 2     \* buffer names the backend can hand out (1..MaxHandle)
MaxBatch == 1      \* longest vector passed to addBuffers / removeBuffers

\* ------------------------------------------------------------- constants
AL_NONE == 0       \* the NULL buffer name; never a valid buffer

PathNames == <<"a", "b", "c", "e">>
Paths == {PathNames[i] : i \in 1..NumPaths}
Prefixes == {"", "d/"}
Handles == 1..MaxHandle
Batches == UNION {[1..n -> Paths] : n \in 0..MaxBatch}

VARIABLES
    m_Buffers,                    \* path -> ALuint, the registry
    m_BufferGroupLoaded,          \* the group's loaded flag
    m_IsParentAudioManagerValid,  \* the owner's validity flag
    m_PathPrefix,                 \* prefix prepended for existence checks
    alBuffers,                    \* buffer names currently valid in OpenAL
    attached,                     \* valid buffers some source still uses
    destroyed,                    \* the destructor has run
    op,                           \* the last operation and its arguments
    ret,                          \* what the last operation returned
    calls                         \* calls the last operation made, in order

vars == <<m_Buffers, m_BufferGroupLoaded, m_IsParentAudioManagerValid,
          m_PathPrefix, alBuffers, attached, destroyed, op, ret, calls>>

\* ------------------------------------------------------------- helpers
Call(c, p, h) == [call |-> c, path |-> p, h |-> h]
Op(n, p, v) == [name |-> n, path |-> p, verify |-> v]
Ret(b, n) == [b |-> b, n |-> n]
NoRet == Ret(FALSE, 0)

\* The part of the state one call reads and writes, threaded through the
\* nested calls of a handler.
Cur == [bufs |-> m_Buffers, loaded |-> m_BufferGroupLoaded, live |-> alBuffers,
        att |-> attached, calls |-> <<>>, ret |-> FALSE, n |-> 0]

Log(st, category, p) == [st EXCEPT !.calls = Append(@, Call("fLogMessage", category, 0))]

\* m_PathPrefix + file_path
FullPath(p) == m_PathPrefix \o p

\* boost::filesystem::exists(f) && boost::filesystem::is_regular_file(f): the
\* filesystem is outside the group and may answer either way at every check;
\* the answer is recorded with the other collaborator calls.
IsFile(st, f, answer) ==
    [st EXCEPT !.calls = Append(@, Call("is_regular_file", f, IF answer THEN 1 ELSE 0))]

\* ------------------------------------------------------------- backend
\* alureCreateBufferFromFile(file): AL_NONE on any error (the file cannot be
\* opened from the working directory or decoded, no buffer name is left),
\* otherwise a new buffer name, one that is not currently valid.
alureCreateBufferFromFile(file, live) == {AL_NONE} \cup (Handles \ live)

\* alDeleteBuffers(1, &h): a buffer attached to a source is not deleted.
alDeleteBuffers(h, live, att) == IF h \in att THEN live ELSE live \ {h}

\* alIsBuffer(h)
alIsBuffer(h, live) == h \in live

\* AudioManager::purgeBufferFromSources(group, handle)
purgeBufferFromSources(st, h) ==
    [st EXCEPT !.att = @ \ {h},
               !.calls = Append(@, Call("purgeBufferFromSources", "", h))]

\* AudioManager::purgeBufferGroupFromSources(group)
purgeBufferGroupFromSources(st) ==
    [st EXCEPT !.att = @ \ {st.bufs[p] : p \in DOMAIN st.bufs},
               !.calls = Append(@, Call("purgeBufferGroupFromSources", "", 0))]

\* ------------------------------------------------------------- methods
\* getBuffer that looks the entry up under prefix + path instead of the path.
getBufferByFullPath(p) ==
    IF FullPath(p) \in DOMAIN m_Buffers THEN m_Buffers[FullPath(p)] ELSE 0

\* ALuint getBuffer(file_path) const
getBuffer(p) == IF p \in DOMAIN m_Buffers THEN m_Buffers[p] ELSE 0

\* loadBuffer without the already-loaded guard: a loaded entry is loaded again.
loadBufferReloads(st, p, verify) ==
    IF ~m_IsParentAudioManagerValid THEN {[st EXCEPT !.ret = FALSE]}
    ELSE LET asked == [st EXCEPT !.calls =
                          Append(@, Call("alureCreateBufferFromFile", p, 0))]
         IN {IF new_buffer = AL_NONE
                THEN [Log(asked, "backend-creation-failure", p) EXCEPT !.ret = FALSE]
                ELSE [asked EXCEPT !.bufs[p] = new_buffer,
                                   !.live = @ \cup {new_buffer},
                                   !.ret = TRUE]
             : new_buffer \in alureCreateBufferFromFile(p, st.live)}

\* loadBuffer that returns false on a backend error without logging it.
loadBufferSilentFailure(st, p, verify) ==
    IF ~m_IsParentAudioManagerValid THEN {[st EXCEPT !.ret = FALSE]}
    ELSE IF st.bufs[p] # 0
        THEN {[Log(st, "already-loaded", p) EXCEPT !.ret = FALSE]}
    ELSE UNION {
        LET checked == IF verify THEN IsFile(st, FullPath(p), is_file) ELSE st
        IN IF verify /\ ~is_file
              THEN {[Log(checked, "missing-file", p) EXCEPT !.ret = FALSE]}
              ELSE LET asked == [checked EXCEPT !.calls =
                                    Append(@, Call("alureCreateBufferFromFile", p, 0))]
                   IN {IF new_buffer = AL_NONE
                          THEN [asked EXCEPT !.ret = FALSE]
                          ELSE [asked EXCEPT !.bufs[p] = new_buffer,
                                             !.live = @ \cup {new_buffer},
                                             !.ret = TRUE]
                       : new_buffer \in alureCreateBufferFromFile(p, st.live)}
        : is_file \in BOOLEAN}

\* bool loadBuffer(iterator, verify_files_exist): the set of possible outcomes
loadBuffer(st, p, verify) ==
    IF ~m_IsParentAudioManagerValid THEN {[st EXCEPT !.ret = FALSE]}
    ELSE IF st.bufs[p] # 0
        THEN {[Log(st, "already-loaded", p) EXCEPT !.ret = FALSE]}
    ELSE UNION {
        LET checked == IF verify THEN IsFile(st, FullPath(p), is_file) ELSE st
        IN IF verify /\ ~is_file
              THEN {[Log(checked, "missing-file", p) EXCEPT !.ret = FALSE]}
              ELSE LET asked == [checked EXCEPT !.calls =
                                    Append(@, Call("alureCreateBufferFromFile", p, 0))]
                   IN {IF new_buffer = AL_NONE
                          THEN [Log(asked, "backend-creation-failure", p)
                                   EXCEPT !.ret = FALSE]
                          ELSE [asked EXCEPT !.bufs[p] = new_buffer,
                                             !.live = @ \cup {new_buffer},
                                             !.ret = TRUE]
                       : new_buffer \in alureCreateBufferFromFile(p, st.live)}
        : is_file \in BOOLEAN}

\* unloadBuffer that asks for the deletion but never clears the handle.
unloadBufferKeepsHandle(st, p) ==
    IF ~m_IsParentAudioManagerValid THEN [st EXCEPT !.ret = FALSE]
    ELSE IF st.bufs[p] # 0
        THEN LET h == st.bufs[p]
                 asked == [st EXCEPT !.live = alDeleteBuffers(h, @, st.att),
                                     !.calls = Append(@, Call("alDeleteBuffers", p, h))]
             IN IF ~alIsBuffer(h, asked.live)
                   THEN [asked EXCEPT !.ret = TRUE]
                   ELSE [Log(asked, "backend-still-in-use", p) EXCEPT !.ret = FALSE]
    ELSE [st EXCEPT !.ret = TRUE]

\* unloadBuffer that clears the handle without asking alIsBuffer.
unloadBufferForcesReset(st, p) ==
    IF ~m_IsParentAudioManagerValid THEN [st EXCEPT !.ret = FALSE]
    ELSE IF st.bufs[p] # 0
        THEN LET h == st.bufs[p]
             IN [st EXCEPT !.live = alDeleteBuffers(h, @, st.att),
                           !.calls = Append(@, Call("alDeleteBuffers", p, h)),
                           !.bufs[p] = 0,
                           !.ret = TRUE]
    ELSE [st EXCEPT !.ret = TRUE]

\* bool unloadBuffer(iterator)
unloadBuffer(st, p) ==
    IF ~m_IsParentAudioManagerValid THEN [st EXCEPT !.ret = FALSE]
    ELSE IF st.bufs[p] # 0
        THEN LET h == st.bufs[p]
                 asked == [st EXCEPT !.live = alDeleteBuffers(h, @, st.att),
                                     !.calls = Append(@, Call("alDeleteBuffers", p, h))]
             IN IF ~alIsBuffer(h, asked.live)
                   THEN [asked EXCEPT !.bufs[p] = 0, !.ret = TRUE]
                   ELSE [Log(asked, "backend-still-in-use", p) EXCEPT !.ret = FALSE]
    ELSE [st EXCEPT !.ret = TRUE]

\* The loop of loadBuffers counting every call instead of every success.
RECURSIVE loadEachCountsAll(_, _, _)
loadEachCountsAll(st, todo, verify) ==
    IF todo = {} THEN {st}
    ELSE UNION {UNION {loadEachCountsAll([r EXCEPT !.n = st.n + 1], todo \ {p}, verify)
                       : r \in loadBuffer(st, p, verify)}
                : p \in todo}

\* The loop of loadBuffers over the hash map, in any iteration order.
RECURSIVE loadEach(_, _, _)
loadEach(st, todo, verify) ==
    IF todo = {} THEN {st}
    ELSE UNION {UNION {loadEach([r EXCEPT !.n = IF r.ret THEN st.n + 1 ELSE st.n],
                                todo \ {p}, verify)
                       : r \in loadBuffer(st, p, verify)}
                : p \in todo}

\* int loadBuffers(verify_files_exist)
loadBuffers(st, verify) ==
    loadEach([st EXCEPT !.loaded = TRUE, !.n = 0,
                        !.calls = Append(@, Call("loadBuffers", "", 0))],
             DOMAIN st.bufs, verify)

\* The loop of unloadBuffers with the ternary swapped: it counts successes.
RECURSIVE unloadEachCountsSuccesses(_, _)
unloadEachCountsSuccesses(st, todo) ==
    IF todo = {} THEN {st}
    ELSE UNION {LET r == unloadBuffer(st, p)
                IN unloadEachCountsSuccesses(
                       [r EXCEPT !.n = IF r.ret THEN st.n + 1 ELSE st.n], todo \ {p})
                : p \in todo}

\* The loop of unloadBuffers over the hash map, in any iteration order.
RECURSIVE unloadEach(_, _)
unloadEach(st, todo) ==
    IF todo = {} THEN {st}
    ELSE UNION {LET r == unloadBuffer(st, p)
                IN unloadEach([r EXCEPT !.n = IF r.ret THEN st.n ELSE st.n + 1],
                              todo \ {p})
                : p \in todo}

\* int unloadBuffers()
unloadBuffers(st) ==
    unloadEach([st EXCEPT !.loaded = FALSE, !.n = 0,
                          !.calls = Append(@, Call("unloadBuffers", "", 0))],
               DOMAIN st.bufs)

\* addBuffer that stores 0 under the path (m_Buffers[file_path] = 0) instead
\* of emplacing, so a registered path is registered afresh.
addBufferOverwrites(st, p) ==
    IF ~m_IsParentAudioManagerValid THEN {[st EXCEPT !.ret = FALSE]}
    ELSE UNION {
        LET checked == IsFile(st, FullPath(p), is_file)
        IN IF ~is_file
              THEN {[Log(checked, "missing-file", p) EXCEPT !.ret = FALSE]}
           ELSE LET placed == [checked EXCEPT !.bufs =
                                  [q \in DOMAIN st.bufs \cup {p} |->
                                      IF q = p THEN 0 ELSE st.bufs[q]]]
                IN IF st.loaded
                      THEN UNION {loadBuffer(placed, p, v) : v \in BOOLEAN}
                      ELSE {[placed EXCEPT !.ret = TRUE]}
        : is_file \in BOOLEAN}

\* addBuffer without the guard on the parent manager's validity.
addBufferIgnoresValidity(st, p) ==
    UNION {
        LET checked == IsFile(st, FullPath(p), is_file)
        IN IF ~is_file
              THEN {[Log(checked, "missing-file", p) EXCEPT !.ret = FALSE]}
           ELSE IF p \in DOMAIN st.bufs
              THEN {[Log(checked, "duplicate-registration", p) EXCEPT !.ret = FALSE]}
           ELSE LET placed == [checked EXCEPT !.bufs =
                                  [q \in DOMAIN st.bufs \cup {p} |->
                                      IF q = p THEN 0 ELSE st.bufs[q]]]
                IN IF st.loaded
                      THEN UNION {loadBuffer(placed, p, v) : v \in BOOLEAN}
                      ELSE {[placed EXCEPT !.ret = TRUE]}
        : is_file \in BOOLEAN}

\* addBuffer that never loads the new entry, whatever the loaded flag says.
addBufferNeverLoads(st, p) ==
    IF ~m_IsParentAudioManagerValid THEN {[st EXCEPT !.ret = FALSE]}
    ELSE UNION {
        LET checked == IsFile(st, FullPath(p), is_file)
        IN IF ~is_file
              THEN {[Log(checked, "missing-file", p) EXCEPT !.ret = FALSE]}
           ELSE IF p \in DOMAIN st.bufs
              THEN {[Log(checked, "duplicate-registration", p) EXCEPT !.ret = FALSE]}
           ELSE {[checked EXCEPT !.bufs = [q \in DOMAIN st.bufs \cup {p} |->
                                             IF q = p THEN 0 ELSE st.bufs[q]],
                                 !.ret = TRUE]}
        : is_file \in BOOLEAN}

\* bool addBuffer(file_path): the set of possible outcomes
addBuffer(st, p) ==
    IF ~m_IsParentAudioManagerValid THEN {[st EXCEPT !.ret = FALSE]}
    ELSE UNION {
        LET checked == IsFile(st, FullPath(p), is_file)
        IN IF ~is_file
              THEN {[Log(checked, "missing-file", p) EXCEPT !.ret = FALSE]}
           ELSE IF p \in DOMAIN st.bufs
              THEN {[Log(checked, "duplicate-registration", p) EXCEPT !.ret = FALSE]}
           ELSE LET placed == [checked EXCEPT !.bufs =
                                  [q \in DOMAIN st.bufs \cup {p} |->
                                      IF q = p THEN 0 ELSE st.bufs[q]]]
                IN IF st.loaded
                      THEN UNION {loadBuffer(placed, p, v) : v \in BOOLEAN}
                      ELSE {[placed EXCEPT !.ret = TRUE]}
        : is_file \in BOOLEAN}

\* int addBuffers(file_paths)
RECURSIVE addEach(_, _, _)
addEach(st, ps, i) ==
    IF i > Len(ps) THEN {st}
    ELSE UNION {addEach([r EXCEPT !.n = IF r.ret THEN st.n + 1 ELSE st.n], ps, i + 1)
                : r \in addBuffer(st, ps[i])}

addBuffers(st, ps) == addEach([st EXCEPT !.n = 0], ps, 1)

\* removeBuffer with the lookup test inverted: a registered path is left alone.
removeBufferInverted(st, p) == st

\* m_Buffers.erase(iterator)
erase(st, p) ==
    [st EXCEPT !.bufs = [q \in DOMAIN st.bufs \ {p} |-> st.bufs[q]],
               !.calls = Append(@, Call("erase", p, 0))]

\* removeBuffer with its first two calls swapped: unload, then purge.
removeBufferUnloadsFirst(st, p) ==
    IF m_IsParentAudioManagerValid /\ p \in DOMAIN st.bufs
        THEN LET unloaded == unloadBuffer(st, p)
                 purged == purgeBufferFromSources(unloaded, st.bufs[p])
             IN erase(purged, p)
        ELSE st

\* removeBuffer without the guard on the parent manager's validity.
removeBufferIgnoresValidity(st, p) ==
    IF p \in DOMAIN st.bufs
        THEN LET purged == purgeBufferFromSources(st, st.bufs[p])
                 unloaded == unloadBuffer(purged, p)
             IN erase(unloaded, p)
        ELSE st

\* removeBuffer that erases the entry without unloading it first.
removeBufferSkipsUnload(st, p) ==
    IF m_IsParentAudioManagerValid /\ p \in DOMAIN st.bufs
        THEN erase(purgeBufferFromSources(st, st.bufs[p]), p)
        ELSE st

\* void removeBuffer(file_path)
removeBuffer(st, p) ==
    IF m_IsParentAudioManagerValid /\ p \in DOMAIN st.bufs
        THEN LET purged == purgeBufferFromSources(st, st.bufs[p])
                 unloaded == unloadBuffer(purged, p)
             IN erase(unloaded, p)
        ELSE st

\* void removeBuffers(file_paths)
RECURSIVE removeEach(_, _, _)
removeEach(st, ps, i) ==
    IF i > Len(ps) THEN st ELSE removeEach(removeBuffer(st, ps[i]), ps, i + 1)

removeBuffers(st, ps) == removeEach(st, ps, 1)

\* void removeAllBuffers()
removeAllBuffers(st) ==
    IF m_IsParentAudioManagerValid
        THEN {[r EXCEPT !.bufs = <<>>]
              : r \in unloadBuffers(purgeBufferGroupFromSources(st))}
        ELSE {st}

\* The destructor with its two calls swapped: unload first, purge afterwards.
destructorUnloadsFirst(st) ==
    IF m_IsParentAudioManagerValid
        THEN {purgeBufferGroupFromSources(r) : r \in unloadBuffers(st)}
        ELSE {st}

\* ~AudioBufferGroup()
destructor(st) ==
    IF m_IsParentAudioManagerValid
        THEN unloadBuffers(purgeBufferGroupFromSources(st))
        ELSE {st}

\* ------------------------------------------------------------- actions
\* Writes back what a handler left behind.
Commit(st, o, r) ==
    /\ m_Buffers' = st.bufs
    /\ m_BufferGroupLoaded' = st.loaded
    /\ alBuffers' = st.live
    /\ attached' = st.att
    /\ calls' = st.calls
    /\ op' = o
    /\ ret' = r
    /\ UNCHANGED <<m_IsParentAudioManagerValid, m_PathPrefix>>

\* The state the three-argument constructor leaves. Neither constructor writes
\* m_BufferGroupLoaded, so the flag starts with either value; the five-argument
\* constructor is this state followed by addBuffers and, if asked, loadBuffers.
Init ==
    /\ m_Buffers = <<>>
    /\ m_BufferGroupLoaded \in BOOLEAN
    /\ m_IsParentAudioManagerValid = TRUE
    /\ m_PathPrefix \in Prefixes
    /\ alBuffers = {}
    /\ attached = {}
    /\ destroyed = FALSE
    /\ op = Op("construct", "", FALSE)
    /\ ret = NoRet
    /\ calls = <<>>

GetBuffer(p) ==
    /\ ~destroyed
    /\ Commit(Cur, Op("getBuffer", p, FALSE), Ret(FALSE, getBuffer(p)))
    /\ UNCHANGED destroyed

AddBuffer(p) ==
    /\ ~destroyed
    /\ \E r \in addBuffer(Cur, p) :
          Commit(r, Op("addBuffer", p, FALSE), Ret(r.ret, 0))
    /\ UNCHANGED destroyed

AddBuffers(ps) ==
    /\ ~destroyed
    /\ \E r \in addBuffers(Cur, ps) :
          Commit(r, Op("addBuffers", "", FALSE), Ret(FALSE, r.n))
    /\ UNCHANGED destroyed

RemoveBuffer(p) ==
    /\ ~destroyed
    /\ Commit(removeBuffer(Cur, p), Op("removeBuffer", p, FALSE), NoRet)
    /\ UNCHANGED destroyed

RemoveBuffers(ps) ==
    /\ ~destroyed
    /\ Commit(removeBuffers(Cur, ps), Op("removeBuffers", "", FALSE), NoRet)
    /\ UNCHANGED destroyed

RemoveAllBuffers ==
    /\ ~destroyed
    /\ \E r \in removeAllBuffers(Cur) :
          Commit(r, Op("removeAllBuffers", "", FALSE), NoRet)
    /\ UNCHANGED destroyed

LoadBuffer(p, verify) ==
    /\ ~destroyed
    /\ p \in DOMAIN m_Buffers
    /\ \E r \in loadBuffer(Cur, p, verify) :
          Commit(r, Op("loadBuffer", p, verify), Ret(r.ret, 0))
    /\ UNCHANGED destroyed

LoadBuffers(verify) ==
    /\ ~destroyed
    /\ \E r \in loadBuffers(Cur, verify) :
          Commit(r, Op("loadBuffers", "", verify), Ret(FALSE, r.n))
    /\ UNCHANGED destroyed

UnloadBuffer(p) ==
    /\ ~destroyed
    /\ p \in DOMAIN m_Buffers
    /\ LET r == unloadBuffer(Cur, p)
       IN Commit(r, Op("unloadBuffer", p, FALSE), Ret(r.ret, 0))
    /\ UNCHANGED destroyed

UnloadBuffers ==
    /\ ~destroyed
    /\ \E r \in unloadBuffers(Cur) :
          Commit(r, Op("unloadBuffers", "", FALSE), Ret(FALSE, r.n))
    /\ UNCHANGED destroyed

Destroy ==
    /\ ~destroyed
    /\ \E r \in destructor(Cur) :
          Commit(r, Op("destructor", "", FALSE), NoRet)
    /\ destroyed' = TRUE

\* The owning AudioManager goes away and marks the group's back reference invalid.
InvalidateParent ==
    /\ ~destroyed
    /\ m_IsParentAudioManagerValid
    /\ m_IsParentAudioManagerValid' = FALSE
    /\ op' = Op("invalidate", "", FALSE)
    /\ ret' = NoRet
    /\ calls' = <<>>
    /\ UNCHANGED <<m_Buffers, m_BufferGroupLoaded, m_PathPrefix, alBuffers,
                   attached, destroyed>>

\* A source starts playing one of the group's live buffers.
SourceAttach(h) ==
    /\ ~destroyed
    /\ m_IsParentAudioManagerValid
    /\ h \in alBuffers \ attached
    /\ attached' = attached \cup {h}
    /\ op' = Op("attach", "", FALSE)
    /\ ret' = NoRet
    /\ calls' = <<>>
    /\ UNCHANGED <<m_Buffers, m_BufferGroupLoaded, m_IsParentAudioManagerValid,
                   m_PathPrefix, alBuffers, destroyed>>

Next ==
    \/ \E p \in Paths : GetBuffer(p)
    \/ \E p \in Paths : AddBuffer(p)
    \/ \E ps \in Batches : AddBuffers(ps)
    \/ \E p \in Paths : RemoveBuffer(p)
    \/ \E ps \in Batches : RemoveBuffers(ps)
    \/ RemoveAllBuffers
    \/ \E p \in Paths, v \in BOOLEAN : LoadBuffer(p, v)
    \/ \E v \in BOOLEAN : LoadBuffers(v)
    \/ \E p \in Paths : UnloadBuffer(p)
    \/ UnloadBuffers
    \/ Destroy
    \/ InvalidateParent
    \/ \E h \in Handles : SourceAttach(h)

Spec == Init /\ [][Next]_vars

\* ------------------------------------------------------------- properties
Made(cs, c) == {i \in 1..Len(cs) : cs[i].call = c}
Logged(cs, category) == \E i \in Made(cs, "fLogMessage") : cs[i].path = category
LoadedEntries(bufs) == {p \in DOMAIN bufs : bufs[p] # 0}

\* C1: every registered entry's handle is 0 or the name of a buffer that is
\* currently valid in the backend; no entry holds the name of a deleted buffer.
C1_HandleZeroOrLive ==
    \A p \in DOMAIN m_Buffers : m_Buffers[p] = 0 \/ m_Buffers[p] \in alBuffers

\* C1 witness: an unloadBuffer has just deleted an entry's buffer while
\* another entry of the group is still loaded.
C1_Witness ==
    /\ op.name = "unloadBuffer"
    /\ ret.b
    /\ Made(calls, "alDeleteBuffers") # {}
    /\ m_Buffers[op.path] = 0
    /\ LoadedEntries(m_Buffers) # {}

\* C2: when unloadBuffer asks the backend to delete a handle and the backend
\* still reports it valid afterwards, the entry keeps that handle and the call
\* returns failure; the handle becomes 0 only if the backend no longer reports
\* the buffer valid.
C2_UnloadInUseKeepsHandle ==
    [][(/\ op'.name = "unloadBuffer"
        /\ m_IsParentAudioManagerValid
        /\ m_Buffers[op'.path] # 0)
       => LET h == m_Buffers[op'.path]
          IN /\ Made(calls', "alDeleteBuffers") # {}
             /\ h \in alBuffers' => (m_Buffers'[op'.path] = h /\ ret'.b = FALSE)
             /\ m_Buffers'[op'.path] = 0 => h \notin alBuffers'
             /\ m_Buffers'[op'.path] \in {0, h}]_vars

\* C2 witness: an unloadBuffer on a buffer a source still plays has failed.
C2_Witness ==
    /\ op.name = "unloadBuffer"
    /\ m_IsParentAudioManagerValid
    /\ ret.b = FALSE
    /\ Made(calls, "alDeleteBuffers") # {}
    /\ m_Buffers[op.path] \in attached

\* C3 as stated: after removeBuffer(path), in any state, getBuffer(path) is 0.
C3_RemoveThenLookupZero ==
    op.name = "removeBuffer" => getBuffer(op.path) = 0

\* C3 amended: after removeBuffer(path) on a group whose manager is still
\* valid, getBuffer(path) is 0.
C3_RemoveThenLookupZeroIfValid ==
    (op.name = "removeBuffer" /\ m_IsParentAudioManagerValid)
        => getBuffer(op.path) = 0

\* C3 witness: removeBuffer has just removed a loaded entry (purged, deleted
\* and erased it) while another entry stays registered.
C3_Witness ==
    /\ op.name = "removeBuffer"
    /\ m_IsParentAudioManagerValid
    /\ Made(calls, "alDeleteBuffers") # {}
    /\ op.path \notin DOMAIN m_Buffers
    /\ DOMAIN m_Buffers # {}

\* C4 as stated: unloadBuffers returns the number of entries whose handle is
\* still non-zero, and leaves the group marked unloaded.
C4_UnloadCountIsStillLoaded ==
    op.name = "unloadBuffers"
        => /\ ret.n = Cardinality(LoadedEntries(m_Buffers))
           /\ ~m_BufferGroupLoaded

\* C4 amended: unloadBuffers leaves the group marked unloaded and returns the
\* number of failed unloadBuffer calls: with a valid manager the number of
\* entries whose handle is still non-zero, with an invalidated manager the
\* number of registered entries.
C4_UnloadCountIsFailures ==
    op.name = "unloadBuffers"
        => /\ ~m_BufferGroupLoaded
           /\ ret.n = IF m_IsParentAudioManagerValid
                         THEN Cardinality(LoadedEntries(m_Buffers))
                         ELSE Cardinality(DOMAIN m_Buffers)

\* C4 witness: unloadBuffers with a valid manager unloaded one entry and
\* failed on another, which a source still plays.
C4_Witness ==
    /\ op.name = "unloadBuffers"
    /\ m_IsParentAudioManagerValid
    /\ ret.n = 1
    /\ Cardinality(Made(calls, "alDeleteBuffers")) = 2
    /\ Cardinality(LoadedEntries(m_Buffers)) = 1

\* C5: loadBuffers marks the group loaded, attempts every entry whose handle
\* is 0, returns the number of entries whose handle went from 0 to non-zero,
\* and leaves the handles of already loaded entries alone.
C5_LoadBuffersCount ==
    [][op'.name = "loadBuffers"
       => /\ m_BufferGroupLoaded'
          /\ DOMAIN m_Buffers' = DOMAIN m_Buffers
          /\ ret'.n = Cardinality({p \in DOMAIN m_Buffers :
                                      m_Buffers[p] = 0 /\ m_Buffers'[p] # 0})
          /\ \A p \in DOMAIN m_Buffers :
                /\ m_Buffers[p] # 0 => m_Buffers'[p] = m_Buffers[p]
                /\ (m_Buffers[p] = 0 /\ m_IsParentAudioManagerValid)
                      => \E i \in 1..Len(calls') :
                            \/ /\ calls'[i].call = "alureCreateBufferFromFile"
                               /\ calls'[i].path = p
                            \/ /\ calls'[i].call = "is_regular_file"
                               /\ calls'[i].path = FullPath(p)]_vars

\* C5 witness: loadBuffers loaded exactly one entry and skipped one that was
\* loaded already.
C5_Witness ==
    /\ op.name = "loadBuffers"
    /\ ret.n = 1
    /\ Logged(calls, "already-loaded")
    /\ Cardinality(LoadedEntries(m_Buffers)) = 2

\* C6: destroying a group whose manager is valid asks the manager to purge the
\* group from sources exactly once and then runs unloadBuffers exactly once,
\* the purge before every backend delete request; destroying a group whose
\* manager is invalidated does neither.
C6_DestroyPurgeThenUnload ==
    destroyed
        => IF m_IsParentAudioManagerValid
              THEN /\ Cardinality(Made(calls, "purgeBufferGroupFromSources")) = 1
                   /\ Cardinality(Made(calls, "unloadBuffers")) = 1
                   /\ \A i \in Made(calls, "purgeBufferGroupFromSources") :
                         \A j \in Made(calls, "unloadBuffers")
                                    \cup Made(calls, "alDeleteBuffers") : i < j
                   /\ \A j \in Made(calls, "unloadBuffers") :
                         \A k \in Made(calls, "alDeleteBuffers") : j < k
              ELSE /\ Made(calls, "purgeBufferGroupFromSources") = {}
                   /\ Made(calls, "unloadBuffers") = {}
                   /\ Made(calls, "alDeleteBuffers") = {}

\* C6 witness: a group with a valid manager was destroyed and its unload
\* deleted a backend buffer.
C6_Witness ==
    /\ destroyed
    /\ m_IsParentAudioManagerValid
    /\ Made(calls, "alDeleteBuffers") # {}

\* C7: addBuffer for a path that is already registered returns false and
\* leaves the entries, their handles and the loaded flag as they were, and
\* creates no backend buffer.
C7_DuplicateAddRejected ==
    [][(op'.name = "addBuffer" /\ op'.path \in DOMAIN m_Buffers)
       => /\ ret'.b = FALSE
          /\ m_Buffers' = m_Buffers
          /\ m_BufferGroupLoaded' = m_BufferGroupLoaded
          /\ alBuffers' = alBuffers
          /\ Made(calls', "alureCreateBufferFromFile") = {}]_vars

\* C7 witness: addBuffer has just rejected a path whose entry is loaded.
C7_Witness ==
    /\ op.name = "addBuffer"
    /\ Logged(calls, "duplicate-registration")
    /\ op.path \in DOMAIN m_Buffers
    /\ m_Buffers[op.path] # 0

\* C8: addBuffer returns false and registers nothing when the file at
\* pathPrefix + path is not a regular file, or when the manager is invalidated.
C8_AddRejectsMissingOrInvalid ==
    [][(/\ op'.name = "addBuffer"
        /\ \/ ~m_IsParentAudioManagerValid
           \/ /\ Len(calls') >= 1
              /\ calls'[1] = Call("is_regular_file", FullPath(op'.path), 0))
       => /\ ret'.b = FALSE
          /\ m_Buffers' = m_Buffers
          /\ alBuffers' = alBuffers]_vars

\* C8 witness: addBuffer has just rejected an unregistered path whose file is
\* missing.
C8_Witness ==
    /\ op.name = "addBuffer"
    /\ ret.b = FALSE
    /\ Logged(calls, "missing-file")
    /\ op.path \notin DOMAIN m_Buffers
    /\ DOMAIN m_Buffers # {}

\* C9: loadBuffer on an entry whose handle is non-zero returns failure and
\* changes nothing: no handle, no backend buffer, not the loaded flag.
C9_LoadLoadedIsNoOp ==
    [][(op'.name = "loadBuffer" /\ m_Buffers[op'.path] # 0)
       => /\ ret'.b = FALSE
          /\ m_Buffers' = m_Buffers
          /\ alBuffers' = alBuffers
          /\ attached' = attached
          /\ m_BufferGroupLoaded' = m_BufferGroupLoaded
          /\ Made(calls', "alureCreateBufferFromFile") = {}]_vars

\* C9 witness: loadBuffer has just refused an entry that is already loaded.
C9_Witness ==
    /\ op.name = "loadBuffer"
    /\ m_IsParentAudioManagerValid
    /\ ret.b = FALSE
    /\ Logged(calls, "already-loaded")
    /\ m_Buffers[op.path] # 0

\* C10: a successful addBuffer registers the path as a new entry and leaves
\* the other entries alone; in a loaded group the new entry holds a non-zero
\* handle, in an unloaded group it holds 0 and no backend buffer is created.
C10_AddRegistersAndLoads ==
    [][(op'.name = "addBuffer" /\ ret'.b)
       => /\ op'.path \notin DOMAIN m_Buffers
          /\ DOMAIN m_Buffers' = DOMAIN m_Buffers \cup {op'.path}
          /\ \A q \in DOMAIN m_Buffers : m_Buffers'[q] = m_Buffers[q]
          /\ IF m_BufferGroupLoaded
                THEN m_Buffers'[op'.path] # 0
                ELSE /\ m_Buffers'[op'.path] = 0
                     /\ alBuffers' = alBuffers
                     /\ Made(calls', "alureCreateBufferFromFile") = {}]_vars

\* C10 witness: addBuffer succeeded on a loaded group and the new entry is
\* loaded.
C10_Witness ==
    /\ op.name = "addBuffer"
    /\ ret.b
    /\ m_BufferGroupLoaded
    /\ m_Buffers[op.path] # 0
    /\ Cardinality(DOMAIN m_Buffers) = 2

\* C11: removeBuffer for a registered path with a valid manager asks the
\* manager to purge source references to the entry's handle, then unloads the
\* entry, then erases it; the purge comes before the backend delete request
\* for that handle.
C11_RemovePurgeUnloadErase ==
    [][(/\ op'.name = "removeBuffer"
        /\ m_IsParentAudioManagerValid
        /\ op'.path \in DOMAIN m_Buffers)
       => LET p == op'.path
              h == m_Buffers[p]
          IN /\ calls'[1] = Call("purgeBufferFromSources", "", h)
             /\ calls'[Len(calls')] = Call("erase", p, 0)
             /\ Cardinality(Made(calls', "purgeBufferFromSources")) = 1
             /\ Cardinality(Made(calls', "erase")) = 1
             /\ h # 0 => Made(calls', "alDeleteBuffers") # {}
             /\ \A i \in Made(calls', "alDeleteBuffers") :
                   /\ calls'[i].h = h
                   /\ 1 < i
                   /\ i < Len(calls')
             /\ p \notin DOMAIN m_Buffers']_vars

\* C11 witness: removeBuffer has just purged, deleted and erased a loaded
\* entry.
C11_Witness ==
    /\ op.name = "removeBuffer"
    /\ m_IsParentAudioManagerValid
    /\ Len(calls) = 3
    /\ calls[1].call = "purgeBufferFromSources"
    /\ calls[2].call = "alDeleteBuffers"
    /\ calls[3].call = "erase"

\* C12: removeBuffer is a no-op when the manager is invalidated or the path is
\* not registered: registry and loaded flag unchanged, no purge request, no
\* backend delete request.
C12_RemoveNoOp ==
    [][(/\ op'.name = "removeBuffer"
        /\ (~m_IsParentAudioManagerValid \/ op'.path \notin DOMAIN m_Buffers))
       => /\ m_Buffers' = m_Buffers
          /\ m_BufferGroupLoaded' = m_BufferGroupLoaded
          /\ alBuffers' = alBuffers
          /\ attached' = attached
          /\ Made(calls', "purgeBufferFromSources") = {}
          /\ Made(calls', "purgeBufferGroupFromSources") = {}
          /\ Made(calls', "alDeleteBuffers") = {}]_vars

\* C12 witness: removeBuffer was called for a loaded entry after the manager
\* was invalidated and left it in place.
C12_Witness ==
    /\ op.name = "removeBuffer"
    /\ ~m_IsParentAudioManagerValid
    /\ op.path \in DOMAIN m_Buffers
    /\ m_Buffers[op.path] # 0
    /\ calls = <<>>

\* C13: getBuffer returns the handle stored for a registered path and 0 for an
\* absent one, and modifies neither the registry, the loaded flag nor the
\* backend.
C13_GetBufferLooksUp ==
    [][op'.name = "getBuffer"
       => /\ ret'.n = IF op'.path \in DOMAIN m_Buffers
                         THEN m_Buffers[op'.path] ELSE 0
          /\ m_Buffers' = m_Buffers
          /\ m_BufferGroupLoaded' = m_BufferGroupLoaded
          /\ alBuffers' = alBuffers
          /\ attached' = attached
          /\ calls' = <<>>]_vars

\* C13 witness: getBuffer has just returned the non-zero handle of a loaded
\* entry.
C13_Witness ==
    /\ op.name = "getBuffer"
    /\ op.path \in DOMAIN m_Buffers
    /\ ret.n # 0
    /\ ret.n = m_Buffers[op.path]

FailingOps == {"addBuffer", "loadBuffer", "unloadBuffer"}
FailureCategories == {"missing-file", "duplicate-registration", "already-loaded",
                      "backend-creation-failure", "backend-still-in-use"}

\* C14 as stated: every false return of addBuffer, loadBuffer and unloadBuffer
\* comes with a log message.
C14_EveryFailureLogged ==
    (op.name \in FailingOps /\ ret.b = FALSE)
        => Made(calls, "fLogMessage") # {}

\* C14 amended: with a valid manager every false return of addBuffer,
\* loadBuffer and unloadBuffer ends with a log message of its category; with an
\* invalidated manager the three return false and log nothing.
C14_FailureLoggedUnlessInvalid ==
    (op.name \in FailingOps /\ ret.b = FALSE)
        => IF m_IsParentAudioManagerValid
              THEN /\ Len(calls) >= 1
                   /\ calls[Len(calls)].call = "fLogMessage"
                   /\ calls[Len(calls)].path \in FailureCategories
              ELSE calls = <<>>

\* C14 witness: loadBuffer has just failed in the backend, with a valid
\* manager, and logged it.
C14_Witness ==
    /\ op.name = "loadBuffer"
    /\ ret.b = FALSE
    /\ m_IsParentAudioManagerValid
    /\ Logged(calls, "backend-creation-failure")

\* C15: while the group exists, every buffer the backend still holds for it is
\* the handle of some registered entry: removeBuffer and removeAllBuffers never
\* erase an entry whose buffer is still valid.
C15_NoUntrackedLiveBuffer ==
    ~destroyed => alBuffers \subseteq {m_Buffers[p] : p \in DOMAIN m_Buffers}

\* C15 witness: removeBuffer has just deleted and erased a loaded entry while
\* another entry's buffer stays valid.
C15_Witness ==
    /\ op.name = "removeBuffer"
    /\ Made(calls, "alDeleteBuffers") # {}
    /\ Made(calls, "erase") # {}
    /\ alBuffers # {}

\* C16: an addBuffer that returns false leaves the set of registered paths as
\* it was, and addBuffers returns the number of entries it newly registered.
C16_FailedAddRegistersNothing ==
    [][/\ (op'.name = "addBuffer" /\ ret'.b = FALSE)
            => DOMAIN m_Buffers' = DOMAIN m_Buffers
       /\ op'.name = "addBuffers"
            => ret'.n = Cardinality(DOMAIN m_Buffers' \ DOMAIN m_Buffers)]_vars

\* C17: the file handed to the backend by loadBuffer is the file whose
\* existence was checked, prefix + path of the entry.
C17_BackendGetsCheckedFile ==
    op.name \in {"addBuffer", "loadBuffer"}
        => \A i \in Made(calls, "alureCreateBufferFromFile") :
              /\ calls[i].path = FullPath(op.path)
              /\ \A j \in Made(calls, "is_regular_file") :
                    calls[j].path = calls[i].path

\* C18: the handle of an entry only ever changes from 0 to a non-zero value or
\* from a non-zero value to 0, never from one non-zero value to another; so
\* loadBuffers on a group whose entries are all loaded returns 0 and creates
\* no backend buffer.
C18_HandleChangesThroughZero ==
    [][/\ \A p \in DOMAIN m_Buffers \cap DOMAIN m_Buffers' :
             m_Buffers'[p] # m_Buffers[p]
                => (m_Buffers[p] = 0 \/ m_Buffers'[p] = 0)
       /\ (/\ op'.name = "loadBuffers"
           /\ \A p \in DOMAIN m_Buffers : m_Buffers[p] # 0)
             => /\ ret'.n = 0
                /\ alBuffers' = alBuffers
                /\ Made(calls', "alureCreateBufferFromFile") = {}]_vars

\* C18 witness: loadBuffers has just run on a group whose two entries were
\* both loaded, and skipped both.
C18_Witness ==
    /\ op.name = "loadBuffers"
    /\ m_IsParentAudioManagerValid
    /\ ret.n = 0
    /\ Cardinality(LoadedEntries(m_Buffers)) = 2
    /\ Cardinality(Made(calls, "fLogMessage")) = 2
    /\ Made(calls, "alureCreateBufferFromFile") = {}

\* C19: right after loadBuffers, with a valid manager and no source holding a
\* buffer of the group, unloadBuffers returns 0, leaves every entry registered
\* with handle 0 and leaves none of the entries' buffers valid in the backend.
C19_LoadUnloadRoundTrip ==
    (/\ op.name = "loadBuffers"
     /\ ~destroyed
     /\ m_IsParentAudioManagerValid
     /\ attached = {})
        => \A r \in unloadBuffers(Cur) :
              /\ r.n = 0
              /\ DOMAIN r.bufs = DOMAIN m_Buffers
              /\ \A p \in DOMAIN m_Buffers :
                    /\ r.bufs[p] = 0
                    /\ m_Buffers[p] \notin r.live
              /\ r.live = {}
              /\ ~r.loaded

\* C19 witness: loadBuffers has just loaded two entries, the manager is valid
\* and no source holds a buffer.
C19_Witness ==
    /\ op.name = "loadBuffers"
    /\ ~destroyed
    /\ m_IsParentAudioManagerValid
    /\ attached = {}
    /\ ret.n = 2
    /\ Cardinality(alBuffers) = 2

====
